---- MODULE Spec2Model ----
(***************************************************************************)
(* Model of the DocuSign event-notification callback of the demo project   *)
(* (django_docusign_demo/views.py): SignatureCallbackView.post and the     *)
(* handlers it dispatches to, together with CreateSignatureView.form_valid *)
(* which creates the records the callback works on.                        *)
(*                                                                         *)
(* Text is a sequence of one-character strings, so that str.lower() is a   *)
(* computation.  An optional value (Python None, or a tag that is absent   *)
(* from the notification body) is a sequence of length 0 or 1.             *)
(***************************************************************************)
EXTENDS Integers, Sequences, FiniteSets, TLC

\* Bounds of the model.
MaxSignatures == 2
MaxCalls == 2

VARIABLES
    signatures,     \* Signature table: pk -> [signature_backend_id, document]
    signers,        \* Signer table: pk -> [signature, status, status_datetime, status_details]
    storage,        \* file storage: name -> content, for the names that exist
    clock,          \* the time; every callback request happens at a later time
    replacements,   \* history: pk -> number of times the signature's document was stored again
    call            \* history: the inputs and the outcome of the latest callback request

vars == <<signatures, signers, storage, clock, replacements, call>>

-----------------------------------------------------------------------------
\* Optional values.
None == << >>
Some(x) == <<x>>

\* Results of the lazily resolved properties: a value, or a raised exception.
Return(v) == [ok |-> TRUE, value |-> v, exc |-> ""]
Raise(e) == [ok |-> FALSE, value |-> 0, exc |-> e]

\* str.lower() on ASCII text.
UpperCase == <<"A", "B", "C", "D", "E", "F", "G", "H", "I", "J", "K", "L", "M",
               "N", "O", "P", "Q", "R", "S", "T", "U", "V", "W", "X", "Y", "Z">>
LowerCase == <<"a", "b", "c", "d", "e", "f", "g", "h", "i", "j", "k", "l", "m",
               "n", "o", "p", "q", "r", "s", "t", "u", "v", "w", "x", "y", "z">>

UpperToLower ==
    [c \in {UpperCase[i] : i \in DOMAIN UpperCase} |->
        LowerCase[CHOOSE i \in DOMAIN UpperCase : UpperCase[i] = c]]

lower_char(c) == IF c \in DOMAIN UpperToLower THEN UpperToLower[c] ELSE c

lower(s) == [i \in 1..Len(s) |-> lower_char(s[i])]

\* int(text), as the ORM applies it to a primary-key lookup value.
Digits == <<"0", "1", "2", "3", "4", "5", "6", "7", "8", "9">>

is_digit(c) == \E i \in DOMAIN Digits : Digits[i] = c

digit_value(c) == (CHOOSE i \in DOMAIN Digits : Digits[i] = c) - 1

RECURSIVE int_value(_)
int_value(s) ==
    IF s = << >> THEN 0
    ELSE 10 * int_value(SubSeq(s, 1, Len(s) - 1)) + digit_value(s[Len(s)])

is_int(s) == s # << >> /\ \A i \in 1..Len(s) : is_digit(s[i])

\* str(pk) for the primary keys the model creates (one digit).
str_pk(pk) == <<Digits[pk + 1]>>

\* The status vocabulary.
sent == <<"s", "e", "n", "t">>
delivered == <<"d", "e", "l", "i", "v", "e", "r", "e", "d">>
completed == <<"c", "o", "m", "p", "l", "e", "t", "e", "d">>
declined == <<"d", "e", "c", "l", "i", "n", "e", "d">>
allowed_status_list == <<sent, delivered, completed, declined>>

Unset == << >>          \* the status of a Signer no callback has written
NoTime == 0             \* its status_datetime

\* BeautifulSoup's Tag.string: None for a tag without text.
string(tag) == IF tag[1] = << >> THEN None ELSE Some(tag[1])

-----------------------------------------------------------------------------
\* File storage (Storage.get_available_name / save / delete as FieldFile uses them).
\* A name is <<base, k>>: k counts the alternatives taken for a name in use.
RECURSIVE get_available_name(_, _)
get_available_name(files, name) ==
    IF name \in DOMAIN files
    THEN get_available_name(files, <<name[1], name[2] + 1>>)
    ELSE name

storage_save(files, name, content) ==
    [f \in DOMAIN files \cup {name} |-> IF f = name THEN content ELSE files[f]]

storage_delete(files, name) == [f \in DOMAIN files \ {name} |-> files[f]]

\* The content a Signature's document field reads, None when the file is gone.
document_content(db, pk) ==
    IF db.signatures[pk].document \in DOMAIN db.storage
    THEN Some(db.storage[db.signatures[pk].document])
    ELSE None

\* The provider's envelope id for the signature created with primary key pk.
envelope_id_of(pk) == <<"e", "n", "v", "-">> \o str_pk(pk)

-----------------------------------------------------------------------------
\* The outcome of running a handler: the database and storage it leaves, the
\* exception that ended it ("" when it returned), the number of requests made to
\* the provider, whether a fetched document was left open, and the signatures
\* whose document was stored again.
Run(db, exc, provider_calls, open, replaced) ==
    [db |-> db, exc |-> exc, provider_calls |-> provider_calls,
     open |-> open, replaced |-> replaced]

\* The provider's answers during one request: env.documents is the envelope's
\* document list with each document's bytes, env.fault the step that fails.
get_envelope_document_list(env) ==
    [i \in DOMAIN env.documents |-> [documentId |-> env.documents[i].documentId]]

get_envelope_document(env, document_id) ==
    LET i == CHOOSE j \in DOMAIN env.documents :
                 env.documents[j].documentId = document_id
    IN env.documents[i].content

\* SignatureCallbackView.signature: the Signature whose backend id is the
\* notification's EnvelopeID.
signature(db, n) ==
    IF n.EnvelopeID = None THEN Raise("AttributeError")
    ELSE LET envelope_id == string(n.EnvelopeID)
             found == {pk \in DOMAIN db.signatures :
                          envelope_id = Some(db.signatures[pk].signature_backend_id)}
         IN IF found = {} THEN Raise("Signature.DoesNotExist")
            ELSE Return(CHOOSE pk \in found : TRUE)

\* SignatureCallbackView.signer: among that Signature's signers, the one whose
\* primary key is the notification's ClientUserId.
signer(db, n) ==
    IF n.ClientUserId = None THEN Raise("AttributeError")
    ELSE LET signer_id == string(n.ClientUserId)
             sig == signature(db, n)
         IN IF ~sig.ok THEN sig
            ELSE IF signer_id # None /\ ~is_int(signer_id[1]) THEN Raise("ValueError")
            ELSE LET found == {pk \in DOMAIN db.signers :
                                  /\ db.signers[pk].signature = sig.value
                                  /\ signer_id # None
                                  /\ int_value(signer_id[1]) = pk}
                 IN IF found = {} THEN Raise("Signer.DoesNotExist")
                    ELSE Return(CHOOSE pk \in found : TRUE)

\* A variant that keeps a Signer that is already completed as it is.
update_signer_status_guarded(db, n, status, now, env) ==
    LET s == signer(db, n)
    IN IF ~s.ok THEN Run(db, s.exc, 0, FALSE, {})
       ELSE IF db.signers[s.value].status = completed THEN Run(db, "", 0, FALSE, {})
       ELSE IF env.fault = "save" THEN Run(db, "DatabaseError", 0, FALSE, {})
       ELSE Run([db EXCEPT !.signers[s.value].status = status,
                           !.signers[s.value].status_datetime = now],
                "", 0, FALSE, {})

update_signer_status(db, n, status, now, env) ==
    LET s == signer(db, n)
    IN IF ~s.ok THEN Run(db, s.exc, 0, FALSE, {})
       ELSE IF env.fault = "save" THEN Run(db, "DatabaseError", 0, FALSE, {})
       ELSE Run([db EXCEPT !.signers[s.value].status = status,
                           !.signers[s.value].status_datetime = now],
                "", 0, FALSE, {})

signature_sent(db, n, now, env) == update_signer_status(db, n, sent, now, env)

signature_delivered(db, n, now, env) == update_signer_status(db, n, delivered, now, env)

\* FieldFile.save(filename, content, save=True) on signature.document.
document_save(db, pk, filename, content) ==
    LET name == get_available_name(db.storage, filename)
    IN [db EXCEPT !.storage = storage_save(@, name, content),
                  !.signatures[pk].document = name]

\* A variant that stores the new file without deleting the old one.
replace_document_keep(db, n, now, env, pk, document) ==
    LET filename == db.signatures[pk].document
    IN IF env.fault \in {"delete", "read", "store"} THEN Run(db, "IOError", 2, TRUE, {})
       ELSE LET stored == document_save(db, pk, filename, document)
                r == update_signer_status(stored, n, completed, now, env)
            IN Run(r.db, r.exc, 2, FALSE, {pk})

\* The steps of signature_completed from the deletion of the old file on:
\* lines 238-243.
replace_document(db, n, now, env, pk, document) ==
    LET filename == db.signatures[pk].document
    IN IF env.fault = "delete" THEN Run(db, "IOError", 2, TRUE, {})
       ELSE LET deleted == [db EXCEPT !.storage = storage_delete(@, filename)]
            IN IF env.fault = "read" THEN Run(deleted, "IOError", 2, TRUE, {})
               ELSE IF env.fault = "store" THEN Run(deleted, "IOError", 2, TRUE, {})
               ELSE LET stored == document_save(deleted, pk, filename, document)
                        r == update_signer_status(stored, n, completed, now, env)
                    IN Run(r.db, r.exc, 2, FALSE, {pk})

\* A variant that writes the status first and replaces the document afterwards.
signature_completed_status_first(db, n, now, env) ==
    LET sig == signature(db, n)
        r == update_signer_status(db, n, completed, now, env)
    IN IF ~sig.ok THEN Run(db, sig.exc, 0, FALSE, {})
       ELSE IF r.exc # "" THEN r
       ELSE IF env.fault = "list" THEN Run(r.db, "DocuSignError", 1, FALSE, {})
       ELSE LET document_list == get_envelope_document_list(env)
            IN IF document_list = << >> THEN Run(r.db, "IndexError", 1, FALSE, {})
               ELSE IF env.fault = "fetch" THEN Run(r.db, "DocuSignError", 2, FALSE, {})
               ELSE replace_document(r.db, n, now, env, sig.value,
                        get_envelope_document(env, document_list[1].documentId))

\* A variant that asks the provider with the notification's envelope id before
\* it looks the Signature up.
signature_completed_provider_first(db, n, now, env) ==
    LET sig == signature(db, n)
    IN IF env.fault = "list" THEN Run(db, "DocuSignError", 1, FALSE, {})
       ELSE LET document_list == get_envelope_document_list(env)
            IN IF document_list = << >> THEN Run(db, "IndexError", 1, FALSE, {})
               ELSE IF env.fault = "fetch" THEN Run(db, "DocuSignError", 2, FALSE, {})
               ELSE IF ~sig.ok THEN Run(db, sig.exc, 2, TRUE, {})
               ELSE replace_document(db, n, now, env, sig.value,
                        get_envelope_document(env, document_list[1].documentId))

\* A variant that leaves the document alone once the Signer is completed.
signature_completed_once(db, n, now, env) ==
    LET sig == signature(db, n)
        s == signer(db, n)
    IN IF ~sig.ok THEN Run(db, sig.exc, 0, FALSE, {})
       ELSE IF s.ok /\ db.signers[s.value].status = completed
       THEN update_signer_status(db, n, completed, now, env)
       ELSE IF env.fault = "list" THEN Run(db, "DocuSignError", 1, FALSE, {})
       ELSE LET document_list == get_envelope_document_list(env)
            IN IF document_list = << >> THEN Run(db, "IndexError", 1, FALSE, {})
               ELSE IF env.fault = "fetch" THEN Run(db, "DocuSignError", 2, FALSE, {})
               ELSE replace_document(db, n, now, env, sig.value,
                        get_envelope_document(env, document_list[1].documentId))

signature_completed(db, n, now, env) ==
    LET sig == signature(db, n)
    IN IF ~sig.ok THEN Run(db, sig.exc, 0, FALSE, {})
       ELSE IF env.fault = "list" THEN Run(db, "DocuSignError", 1, FALSE, {})
       ELSE LET document_list == get_envelope_document_list(env)
            IN IF document_list = << >> THEN Run(db, "IndexError", 1, FALSE, {})
               ELSE IF env.fault = "fetch" THEN Run(db, "DocuSignError", 2, FALSE, {})
               ELSE replace_document(db, n, now, env, sig.value,
                        get_envelope_document(env, document_list[1].documentId))

\* A variant that adds the reason to the details already stored.
signature_declined_append(db, n, now, env) ==
    LET r == update_signer_status(db, n, declined, now, env)
        old == db.signers[signer(db, n).value].status_details
    IN IF r.exc # "" THEN r
       ELSE IF n.DeclineReason = None THEN Run(r.db, "AttributeError", 0, FALSE, {})
       ELSE Run([r.db EXCEPT !.signers[signer(db, n).value].status_details =
                     IF old = None \/ string(n.DeclineReason) = None
                     THEN string(n.DeclineReason)
                     ELSE Some(old[1] \o string(n.DeclineReason)[1])],
                "", 0, FALSE, {})

signature_declined(db, n, now, env) ==
    LET r == update_signer_status(db, n, declined, now, env)
    IN IF r.exc # "" THEN r
       ELSE IF n.DeclineReason = None THEN Run(r.db, "AttributeError", 0, FALSE, {})
       ELSE Run([r.db EXCEPT !.signers[signer(db, n).value].status_details =
                                  string(n.DeclineReason)],
                "", 0, FALSE, {})

\* A variant that stores whatever status the notification carries.
dispatch_unchecked(db, n, now, env, status) ==
    CASE status = sent -> signature_sent(db, n, now, env)
      [] status = delivered -> signature_delivered(db, n, now, env)
      [] status = completed -> signature_completed(db, n, now, env)
      [] status = declined -> signature_declined(db, n, now, env)
      [] OTHER -> update_signer_status(db, n, status, now, env)

\* Lines 170-174 of update_signature: the check of the lower-cased status
\* against the allowed list, and the call of the handler named after it.
dispatch(db, n, now, env, status) ==
    IF ~(\E i \in DOMAIN allowed_status_list : allowed_status_list[i] = status)
    THEN Run(db, "Exception: Unknown status", 0, FALSE, {})
    ELSE CASE status = sent -> signature_sent(db, n, now, env)
           [] status = delivered -> signature_delivered(db, n, now, env)
           [] status = completed -> signature_completed(db, n, now, env)
           [] status = declined -> signature_declined(db, n, now, env)

update_signature(db, n, now, env) ==
    IF n.Status = None THEN Run(db, "AttributeError", 0, FALSE, {})
    ELSE IF string(n.Status) = None
    THEN Run(db, "Exception: Could not parse callback request body.", 0, FALSE, {})
    ELSE dispatch(db, n, now, env, lower(string(n.Status)[1]))

-----------------------------------------------------------------------------
\* The requests the model delivers.

\* Documents the provider holds for an envelope.
SignedPdf == [documentId |-> "1", content |-> "PDF-CONTENT"]
Certificate == [documentId |-> "2", content |-> "CERTIFICATE"]

Faults == {"none", "list", "fetch", "delete", "read", "store", "save"}

\* The provider answers with the signed document and nothing fails.
Nominal == [documents |-> <<SignedPdf>>, fault |-> "none"]

Notification(envelope, status, user, reason) ==
    [EnvelopeID |-> envelope, Status |-> status, ClientUserId |-> user,
     DeclineReason |-> reason]

\* Envelope ids and client-user ids are those of the signatures that can exist.
\* Matching pairs resolve once the signature is created; the other pairs name
\* an envelope no signature has (0), a signer nobody has (0), and the signer of
\* another signature.
Keys == 1..MaxSignatures
Pairs == {<<k, k>> : k \in Keys} \cup {<<0, 1>>, <<1, 0>>, <<1, 2>>}
EnvelopeTag(i) == Some(envelope_id_of(i))
UserTag(i) == Some(str_pk(i))

NilReason == Some(<< >>)                     \* <DeclineReason xsi:nil="true"/>
PriceTooHigh == Some(<<"price too high">>)

SENT == <<"S", "E", "N", "T">>
Sent == <<"S", "e", "n", "t">>
DELIVERED == <<"D", "E", "L", "I", "V", "E", "R", "E", "D">>
dEcLiNeD == <<"d", "E", "c", "L", "i", "N", "e", "D">>
Delivered == <<"D", "e", "l", "i", "v", "e", "r", "e", "d">>
Completed == <<"C", "o", "m", "p", "l", "e", "t", "e", "d">>
Declined == <<"D", "e", "c", "l", "i", "n", "e", "d">>
Voided == <<"V", "o", "i", "d", "e", "d">>

Deliveries ==
    \* well-formed notifications of the four statuses, for every pair of ids
    {<<Notification(EnvelopeTag(p[1]), Some(t), UserTag(p[2]), r), Nominal>> :
        p \in Pairs,
        t \in {sent, Delivered, Completed, Declined}, r \in {PriceTooHigh}}
    \* other letter cases, document lists and decline reasons
    \cup {<<Notification(EnvelopeTag(k), Some(t), UserTag(k), NilReason), Nominal>> :
        k \in Keys, t \in {SENT, Sent, DELIVERED, completed, dEcLiNeD}}
    \cup {<<Notification(EnvelopeTag(k), Some(Completed), UserTag(k), NilReason),
            [documents |-> d, fault |-> "none"]>> :
        k \in Keys, d \in {<< >>, <<Certificate, SignedPdf>>}}
    \cup {<<Notification(EnvelopeTag(k), Some(Declined), UserTag(k), r), Nominal>> :
        k \in Keys, r \in {None, NilReason}}
    \* a step of the request fails
    \cup {<<Notification(EnvelopeTag(k), Some(Completed), UserTag(k), NilReason),
            [documents |-> <<SignedPdf>>, fault |-> f]>> :
        k \in Keys, f \in Faults \ {"none"}}
    \cup {<<Notification(EnvelopeTag(1), Some(t), UserTag(1), PriceTooHigh),
            [documents |-> <<SignedPdf>>, fault |-> "save"]>> : t \in {sent, Declined}}
    \* a status outside the vocabulary, an empty Status tag, no Status tag
    \cup {<<Notification(EnvelopeTag(1), s, UserTag(1), NilReason), Nominal>> :
        s \in {None, Some(<< >>), Some(Voided)}}
    \* ids that are missing, empty or not a number
    \cup {<<Notification(p[1], Some(sent), p[2], NilReason), Nominal>> :
        p \in {<<None, UserTag(1)>>, <<Some(<< >>), UserTag(1)>>,
               <<EnvelopeTag(1), None>>, <<EnvelopeTag(1), Some(<< >>)>>,
               <<EnvelopeTag(1), Some(<<"x">>)>>}}

-----------------------------------------------------------------------------
Database == [signatures |-> signatures, signers |-> signers, storage |-> storage]

NoCall ==
    [kind |-> "none", n |-> Notification(None, None, None, None), env |-> Nominal,
     now |-> NoTime, before |-> Database, before_replacements |-> replacements,
     exc |-> "", provider_calls |-> 0, open |-> FALSE, replaced |-> {},
     redelivered |-> FALSE]

Init ==
    /\ signatures = << >>
    /\ signers = << >>
    /\ storage = << >>
    /\ clock = NoTime
    /\ replacements = << >>
    /\ call = [NoCall EXCEPT !.before = [signatures |-> << >>, signers |-> << >>,
                                         storage |-> << >>],
                             !.before_replacements = << >>]

\* CreateSignatureView.form_valid: a Signature with the uploaded document and
\* its one Signer; the backend then registers the envelope and stores its id.
CreateSignature(upload, content) ==
    /\ Len(signatures) < MaxSignatures
    /\ LET pk == Len(signatures) + 1
           name == get_available_name(storage, <<upload, 0>>)
       IN /\ storage' = storage_save(storage, name, content)
          /\ signatures' = Append(signatures,
                 [signature_backend_id |-> envelope_id_of(pk), document |-> name])
          /\ signers' = Append(signers,
                 [signature |-> pk, status |-> Unset, status_datetime |-> NoTime,
                  status_details |-> None])
          /\ replacements' = Append(replacements, 0)
    /\ call' = [NoCall EXCEPT !.before = Database,
                              !.before_replacements = replacements]
    /\ UNCHANGED clock

\* SignatureCallbackView.post: one notification, handled to the end.
Post(n, env) ==
    /\ clock < MaxCalls
    /\ LET now == clock + 1
           run == update_signature(Database, n, now, env)
       IN /\ signatures' = run.db.signatures
          /\ signers' = run.db.signers
          /\ storage' = run.db.storage
          /\ clock' = now
          /\ replacements' = [pk \in DOMAIN replacements |->
                 IF pk \in run.replaced THEN replacements[pk] + 1
                 ELSE replacements[pk]]
          /\ call' = [kind |-> "post", n |-> n, env |-> env, now |-> now,
                      before |-> Database, before_replacements |-> replacements,
                      exc |-> run.exc, provider_calls |-> run.provider_calls,
                      open |-> run.open, replaced |-> run.replaced,
                      redelivered |-> /\ call.kind = "post"
                                      /\ call.n = n
                                      /\ call.env = env]

Next ==
    \/ \E upload \in {"contract.pdf"}, content \in {"UPLOAD"} :
           CreateSignature(upload, content)
    \/ \E d \in Deliveries : Post(d[1], d[2])

Spec == Init /\ [][Next]_vars

-----------------------------------------------------------------------------
\* Vocabulary of the properties: what the latest request was, read from the
\* notification and from the tables as they were before it.

Posted == call.kind = "post"

\* The notification's status, lower-cased; None when the tag is absent or empty.
CallStatus ==
    IF call.n.Status = None \/ call.n.Status[1] = << >> THEN None
    ELSE Some(lower(call.n.Status[1]))

ValidStatus == CallStatus \in {Some(sent), Some(delivered), Some(completed), Some(declined)}

SignatureMatches(pk) ==
    /\ pk \in DOMAIN call.before.signatures
    /\ call.n.EnvelopeID = Some(call.before.signatures[pk].signature_backend_id)

SignerMatches(pk) ==
    /\ pk \in DOMAIN call.before.signers
    /\ SignatureMatches(call.before.signers[pk].signature)
    /\ call.n.ClientUserId = Some(str_pk(pk))

Unchanged == Database = call.before

\* The provider lists a document and no step of the replacement fails.
ReplacementSucceeds ==
    /\ call.env.documents # << >>
    /\ call.env.fault \notin {"list", "fetch", "delete", "read", "store"}

-----------------------------------------------------------------------------
\* C1: after a request whose status is one of the four (in any letter case),
\* whose envelope and signer resolve and in which no step fails, the Signer's
\* status is the lower-cased notification status and its status timestamp is
\* the time of the request, whatever the status was before.
C1_StatusFollowsNotification ==
    \A pk \in DOMAIN signers :
        (/\ Posted
         /\ ValidStatus
         /\ SignerMatches(pk)
         /\ call.env.fault = "none"
         /\ call.env.documents # << >>)
        => /\ signers[pk].status = CallStatus[1]
           /\ signers[pk].status_datetime = call.now

\* A completed Signer is set back to sent by a notification written "SENT".
C1_Witness ==
    \E pk \in DOMAIN signers :
        /\ Posted
        /\ SignerMatches(pk)
        /\ call.n.Status = Some(SENT)
        /\ call.before.signers[pk].status = completed
        /\ signers[pk].status = sent

C3_UnknownSignerChangesNothing ==
    (/\ Posted
     /\ ValidStatus
     /\ \E sig \in DOMAIN signatures : SignatureMatches(sig)
     /\ ~\E pk \in DOMAIN signers : SignerMatches(pk))
    => /\ call.exc # ""
       /\ Unchanged

\* C4: a request whose status is missing, empty or outside the vocabulary
\* fails, asks the provider nothing and changes nothing; and every stored
\* status is unset or one of the four.
C4_UnknownStatusNeverStored ==
    /\ (Posted /\ ~ValidStatus)
       => (call.exc # "" /\ Unchanged /\ call.provider_calls = 0)
    /\ \A pk \in DOMAIN signers :
           signers[pk].status \in {Unset, sent, delivered, completed, declined}

\* "Voided" arrives for an existing envelope and signer.
C4_Witness ==
    /\ Posted
    /\ call.n.Status = Some(Voided)
    /\ \E pk \in DOMAIN signers : SignerMatches(pk)
    /\ call.exc = "Exception: Unknown status"

\* C5: a request with a valid status whose envelope id matches no Signature
\* fails, changes nothing, and makes no request to the provider.
C5_UnknownEnvelopeChangesNothing ==
    (/\ Posted
     /\ ValidStatus
     /\ ~\E sig \in DOMAIN signatures : SignatureMatches(sig))
    => /\ call.exc # ""
       /\ Unchanged
       /\ call.provider_calls = 0

\* A completed notification names an envelope no Signature has, while
\* signatures exist.
C5_Witness ==
    /\ Posted
    /\ CallStatus = Some(completed)
    /\ call.n.EnvelopeID = EnvelopeTag(0)
    /\ signatures # << >>
    /\ call.exc = "Signature.DoesNotExist"

\* C6: after a completed notification that resolves, with a document list
\* and no failing step, the Signature's document holds exactly the bytes of
\* the list's first entry, under the name it had before, and the Signer is
\* Completed.
C6_DocumentReplaced ==
    \A pk \in DOMAIN signers :
        (/\ Posted
         /\ CallStatus = Some(completed)
         /\ SignerMatches(pk)
         /\ call.env.fault = "none"
         /\ call.env.documents # << >>)
        => LET sig == signers[pk].signature
           IN /\ document_content(Database, sig) = Some(call.env.documents[1].content)
              /\ signatures[sig].document = call.before.signatures[sig].document
              /\ signers[pk].status = completed

\* The provider lists two documents and the first one replaces the upload.
C6_Witness ==
    \E pk \in DOMAIN signers :
        /\ Posted
        /\ CallStatus = Some(completed)
        /\ SignerMatches(pk)
        /\ call.env = [documents |-> <<Certificate, SignedPdf>>, fault |-> "none"]
        /\ document_content(call.before, signers[pk].signature) = Some("UPLOAD")
        /\ document_content(Database, signers[pk].signature) = Some("CERTIFICATE")

\* C7 as stated: a declined notification that resolves succeeds, leaves the
\* Signer Declined, and its status detail is the decline reason, the empty
\* string when the notification has none.
C7_DeclineReasonStored ==
    \A pk \in DOMAIN signers :
        (/\ Posted
         /\ CallStatus = Some(declined)
         /\ SignerMatches(pk)
         /\ call.env.fault = "none")
        => /\ call.exc = ""
           /\ signers[pk].status = declined
           /\ IF call.n.DeclineReason = None \/ call.n.DeclineReason[1] = << >>
              THEN signers[pk].status_details \in {None, Some(<< >>)}
              ELSE signers[pk].status_details = call.n.DeclineReason

\* C8: when a notification with a valid status is delivered twice in
\* succession (the provider answering alike), every Signer's status and
\* status detail and every Signature's document content are after the second
\* request what they were after the first.
C8_RedeliveryConverges ==
    (Posted /\ call.redelivered /\ ValidStatus)
    => /\ \A pk \in DOMAIN signers :
              /\ signers[pk].status = call.before.signers[pk].status
              /\ signers[pk].status_details = call.before.signers[pk].status_details
       /\ \A sig \in DOMAIN signatures :
              document_content(Database, sig) = document_content(call.before, sig)

\* A declined notification with a reason is delivered a second time.
C8_Witness ==
    \E pk \in DOMAIN signers :
        /\ Posted
        /\ call.redelivered
        /\ SignerMatches(pk)
        /\ CallStatus = Some(declined)
        /\ call.exc = ""
        /\ signers[pk].status_details = PriceTooHigh
        /\ signers[pk].status_datetime # call.before.signers[pk].status_datetime

\* C9 as stated: a Signature's document is replaced once only: a completed
\* notification for a Signer that is already Completed (a redelivered or
\* repeated one) neither asks the provider again nor replaces the document
\* again, and sent, delivered and declined never change a document.
C9_ReplacedExactlyOnce ==
    /\ \A pk \in DOMAIN signers :
           (/\ Posted
            /\ CallStatus = Some(completed)
            /\ SignerMatches(pk)
            /\ call.before.signers[pk].status = completed)
           => (call.replaced = {} /\ call.provider_calls = 0)
    /\ (Posted /\ CallStatus \in {Some(sent), Some(delivered), Some(declined)})
       => (signatures = call.before.signatures /\ storage = call.before.storage)

\* C9 amended: every completed notification whose envelope resolves and whose
\* document replacement succeeds asks the provider for the list and for the
\* document once and replaces the Signature's document once, a redelivered
\* one included; no other request replaces a document, and sent, delivered
\* and declined neither change a document nor ask the provider.
C9_ReplacedOncePerCompleted ==
    Posted =>
        /\ \A sig \in DOMAIN replacements :
               replacements[sig] = call.before_replacements[sig] +
                   (IF /\ CallStatus = Some(completed)
                       /\ SignatureMatches(sig)
                       /\ ReplacementSucceeds
                    THEN 1 ELSE 0)
        /\ (CallStatus = Some(completed)
            /\ (\E sig \in DOMAIN signatures : SignatureMatches(sig))
            /\ ReplacementSucceeds)
           => call.provider_calls = 2
        /\ CallStatus \in {Some(sent), Some(delivered), Some(declined)}
           => /\ signatures = call.before.signatures
              /\ storage = call.before.storage
              /\ call.provider_calls = 0

\* The same Signature's document has been replaced twice.
C9_Witness ==
    \E sig \in DOMAIN replacements :
        /\ Posted
        /\ call.redelivered
        /\ replacements[sig] = 2

\* C10 as stated: no request ends with a fetched document still open.
C10_FetchedDocumentClosed == Posted => ~call.open

=============================================================================
